---- MODULE Spec2Model ----
(***************************************************************************)
(* camplicon: the "filter" command.  Primer pairs are generated and        *)
(* checked with Primer3, PCR products are simulated per genome file in a   *)
(* worker pool, the pairs are scored, filtered and ranked, and the report  *)
(* is written.                                                             *)
(*                                                                         *)
(* Python values are represented as follows.                               *)
(*   - a str of bases is a sequence of one-letter strings;                 *)
(*   - None is the record [none |-> TRUE];                                 *)
(*   - a PCR_Product object carries a field oid, its object identity:      *)
(*     the class defines neither __eq__ nor __hash__, so set(), `in` and   *)
(*     list.count() compare PCR_Product objects by identity.  One object   *)
(*     is created per (genome file, primer pair), in the worker process;   *)
(*   - a float that is a ratio is a record [num, den]; the entropy is the  *)
(*     record [num, den, n] standing for log2(num/den)/n; the standard     *)
(*     error is kept as its square.                                        *)
(***************************************************************************)
EXTENDS Integers, Sequences, FiniteSets, TLC

VARIABLES
    args,         \* the parsed command line: [min, max]
    pc,           \* position of the main thread in filter_primers
    err,          \* the exception that ended the run, "" while none
    stderr,       \* diagnostics written to sys.stderr
    fg_files,     \* the foreground genome files found
    bg_files,     \* the background genome files found
    primer_pairs, \* the viable Primer_pair objects, in pair_id order
    fg_task,      \* status of the pool task of each foreground file
    bg_task,      \* status of the pool task of each background file
    fg_ret,       \* value returned by the pool task of each foreground file
    bg_ret,       \* value returned by the pool task of each background file
    fg_products,  \* pair_id -> list of foreground products, after rearranging
    bg_products,  \* pair_id -> list of background products, after rearranging
    nscored,      \* number of calls of score_primer_pair begun so far
    ranked,       \* the list returned by generate_products_and_score
    report,       \* the rows written to <prefix>_pairs.txt, <<>> while unwritten
    failed,       \* the external invocations that exited non-zero: <<input, tool>>
    p3_invoked,   \* the pair_ids primer3_core was run for
    call,         \* a single function call under examination: its arguments
    result        \* the value that call returned

vars == <<args, pc, err, stderr, fg_files, bg_files, primer_pairs, fg_task,
          bg_task, fg_ret, bg_ret, fg_products, bg_products, nscored, ranked,
          report, failed, p3_invoked, call, result>>

\* Largest number of genome files (foreground plus background) of a run.
MaxFiles == 3

\* Longest product generate_product keeps.
HugeProduct == 10000

None == [none |-> TRUE]
IsNone(x) == "none" \in DOMAIN x

\* subprocess.CalledProcessError, as a value a pool task hands back to the
\* main thread, where starmap raises it again.
CalledProcessError == [exc |-> "CalledProcessError"]
IsExc(x) == "exc" \in DOMAIN x

Min2(a, b) == IF a < b THEN a ELSE b

RECURSIVE Pow(_, _)
Pow(a, b) == IF b = 0 THEN 1 ELSE a * Pow(a, b - 1)

RECURSIVE Gcd(_, _)
Gcd(a, b) == IF b = 0 THEN a ELSE Gcd(b, a % b)

\* str(i) for a small non-negative integer.
Str(i) == <<"0", "1", "2", "3", "4", "5", "6", "7", "8", "9">>[i + 1]

\* s[a:b + 1]: a slice that takes its end index in.
Slice_end_inclusive(s, a, b) == SubSeq(s, a + 1, Min2(b + 1, Len(s)))

\* s[a:b] of a Python sequence, for 0 <= a.
Slice(s, a, b) == SubSeq(s, a + 1, Min2(b, Len(s)))

(***************************************************************************)
(* Data model                                                              *)
(***************************************************************************)
Primer(id, seq, melt) == [id |-> id, seq |-> seq, melt |-> melt]

Primer_hit(primer_id, target, strand, pos, edist) ==
    [primer_id |-> primer_id, target |-> target, strand |-> strand,
     pos |-> pos, edist |-> edist]

Zero == [num |-> 0, den |-> 1]
ZeroInfo == [num |-> 1, den |-> 1, n |-> 1]

Primer_pair(pair_id, primer1, primer2) ==
    [pair_id |-> Str(pair_id), left |-> primer1, right |-> primer2,
     locale |-> "-", penalty |-> -1, nhits |-> 0, length |-> Zero,
     se |-> Zero, nseq |-> 0, info |-> ZeroInfo, offhits |-> 0,
     offseqs |-> 0, overlap |-> 0]

PCR_Product(oid, template, seq, start, end) ==
    [oid |-> oid, template |-> template, seq |-> seq, start |-> start,
     end |-> end]

(***************************************************************************)
(* Inputs of a run                                                         *)
(***************************************************************************)
\* The primer file: two primers followed by their reverse complements, as
\* find_primers writes it.
Primers ==
    << Primer("0", <<"A", "C">>, 60), Primer("1", <<"A", "G">>, 61),
       Primer("0rc", <<"G", "T">>, 60), Primer("1rc", <<"C", "T">>, 61) >>

\* --min and --max of the command line.
ArgSets == { [min |-> 3, max |-> 6], [min |-> 2, max |-> 5] }

\* The contigs of a genome file: a short contig of period four, a second
\* short contig and one contig longer than HugeProduct.
Contigs ==
    [ chr1 |-> [id |-> "chr1",
                seq |-> <<"A", "C", "G", "T", "A", "C", "G", "T", "A", "C">>],
      chr2 |-> [id |-> "chr2", seq |-> <<"T", "T", "G", "A", "C", "A">>],
      chrL |-> [id |-> "chrL",
                seq |-> [i \in 1..(HugeProduct + 10) |->
                            IF i % 2 = 0 THEN "G" ELSE "A"]] ]

read_genome(genome_file) == Contigs

\* A SAM record as bwa samse prints it: the fields of one line.
Sam(qname, flag, rname, pos, nm) ==
    [header |-> FALSE, qname |-> qname, flag |-> flag, rname |-> rname,
     pos |-> pos, nm |-> nm]
SamHeader == [header |-> TRUE]

\* The alignments bwa may report for a genome file.
AlnOutputs ==
    { \* pairs 2 and 3 both give a product of length 4
      << SamHeader, Sam("0", 0, "chr1", 1, 0), Sam("1", 0, "chr1", 2, 0),
         Sam("0rc", 16, "chr1", 4, 0), Sam("1rc", 16, "chr1", 3, 0) >>,
      \* pair 2 gives the same sequence from another place, pair 3 a longer
      \* product with the right primer upstream of the left one
      << SamHeader, Sam("0", 0, "chr1", 5, 0), Sam("1", 16, "chr1", 5, 1),
         Sam("0rc", 0, "chr1", 2, 0), Sam("1rc", 16, "chr1", 7, 0) >>,
      \* pair 2 gives a product of length 3, pair 3 one of length 6
      << SamHeader, Sam("0", 0, "chr1", 1, 0), Sam("1", 0, "chr1", 1, 0),
         Sam("0rc", 16, "chr1", 5, 0), Sam("1rc", 16, "chr1", 2, 1) >>,
      \* primer 0 is unmapped
      << SamHeader, Sam("0", 4, "*", 0, 0), Sam("1", 0, "chr1", 2, 0),
         Sam("0rc", 16, "chr1", 4, 0), Sam("1rc", 16, "chr1", 3, 0) >>,
      \* pair 2 spans more than HugeProduct bases, pair 3 two contigs
      << SamHeader, Sam("0", 0, "chrL", 1, 0), Sam("1", 0, "chr1", 2, 0),
         Sam("0rc", 16, "chr2", 4, 0),
         Sam("1rc", 16, "chrL", HugeProduct, 0) >> }

\* One run of bwa for a genome file: the exit statuses of bwa index, bwa aln
\* and bwa samse, and what the pipeline printed.
BwaRun(index, aln, samse, out) ==
    [index |-> index, aln |-> aln, samse |-> samse, out |-> out]

BwaRuns ==
    {BwaRun(0, 0, 0, out) : out \in AlnOutputs}
    \cup { \* bwa index fails, an index of an earlier run is still there
           BwaRun(1, 0, 0, << SamHeader, Sam("0", 0, "chr1", 1, 0),
                              Sam("1", 0, "chr1", 2, 0),
                              Sam("0rc", 16, "chr1", 4, 0),
                              Sam("1rc", 16, "chr1", 3, 0) >>),
           \* bwa aln fails, bwa samse prints the header and exits 0
           BwaRun(0, 1, 0, << SamHeader >>),
           \* bwa samse fails
           BwaRun(0, 0, 1, << SamHeader >>) }

\* The exit statuses of primer3_core for the pairs it is run for, by pair
\* index.
P3Exits == { <<0, 0, 0, 0, 0, 0>>, <<0, 0, 0, 1, 0, 0>> }

\* What primer3_core answers for the pairs it is asked about, by pair index:
\* a penalty, or -1 for PRIMER_PAIR_NUM_RETURNED=0.
P3Outputs ==
    { <<-1, -1, 1, 2, -1, -1>>, <<-1, -1, 2, 1, -1, -1>>,
      <<-1, -1, 1, 1, -1, -1>>, <<1, 1, 1, 1, 1, 1>>,
      <<-1, -1, 2, -1, -1, -1>>, <<-1, -1, -1, -1, -1, -1>> }

(***************************************************************************)
(* Pair generation and the Primer3 check                                   *)
(***************************************************************************)
Complement(b) ==
    CASE b = "A" -> "T" [] b = "T" -> "A" [] b = "C" -> "G" [] b = "G" -> "C"

reverse_complement(seq) ==
    [i \in 1..Len(seq) |-> Complement(seq[Len(seq) + 1 - i])]

\* itertools.combinations(primers, 2): the index pairs i < j in lexicographic
\* order; position k of the result holds the pair numbered k - 1.
RECURSIVE Combinations(_, _, _)
Combinations(n, i, j) ==
    IF i >= n THEN <<>>
    ELSE IF j > n THEN Combinations(n, i + 1, i + 2)
    ELSE <<(<<i, j>>)>> \o Combinations(n, i, j + 1)

generate_primer_pairs(primers) ==
    LET combs == Combinations(Len(primers), 1, 2)
    IN  [k \in 1..Len(combs) |->
            Primer_pair(k - 1, primers[combs[k][1]], primers[combs[k][2]])]

\* check_primer_pair_primer3 without the reverse-complement test of line 226.
check_primer_pair_primer3_always_runs(primer_pair, answer) ==
    IF answer.exit # 0
    THEN [value |-> CalledProcessError, invoked |-> TRUE]
    ELSE IF answer.penalty # -1
         THEN [value |-> [primer_pair EXCEPT !.penalty = answer.penalty],
               invoked |-> TRUE]
         ELSE [value |-> None, invoked |-> TRUE]

\* answer: what running primer3_core for this pair gives, its exit status and
\* the penalty it prints, -1 when it prints PRIMER_PAIR_NUM_RETURNED=0.  The
\* result is [value, invoked]: what the call returns or raises, and whether
\* it ran primer3_core.
check_primer_pair_primer3(primer_pair, answer) ==
    IF reverse_complement(primer_pair.left.seq) = primer_pair.right.seq
    THEN [value |-> None, invoked |-> FALSE]
    ELSE IF answer.exit # 0
         THEN [value |-> CalledProcessError, invoked |-> TRUE]
    ELSE IF answer.penalty # -1
         THEN [value |-> [primer_pair EXCEPT !.penalty = answer.penalty],
               invoked |-> TRUE]
         ELSE [value |-> None, invoked |-> TRUE]

NotNone(x) == ~IsNone(x)

(***************************************************************************)
(* Alignment-hit resolver                                                  *)
(***************************************************************************)
\* int(x / 8) of Python: the quotient truncated towards zero.
TruncDiv(a, b) == IF a >= 0 THEN a \div b ELSE -((-a) \div b)

\* int((int(fields[1]) / 8) - 1)
Strand(flag) == TruncDiv(flag - 8, 8)

RECURSIVE parse_aln_from(_, _, _)
parse_aln_from(aln, i, primer_hits) ==
    IF i > Len(aln) THEN primer_hits
    ELSE LET line == aln[i]
         IN  IF ~line.header /\ line.flag # 4
             THEN parse_aln_from(aln, i + 1,
                      (line.qname :> Primer_hit(line.qname, line.rname,
                                                Strand(line.flag), line.pos,
                                                line.nm)) @@ primer_hits)
             ELSE parse_aln_from(aln, i + 1, primer_hits)

parse_aln(aln) == parse_aln_from(aln, 1, [x \in {} |-> None])

(***************************************************************************)
(* Product simulator                                                       *)
(***************************************************************************)
\* generate_product without the strand test of line 258.
generate_product_any_strand(primer_pair, primer_hits, genome, primer_len, oid) ==
    IF primer_pair.left.id \notin DOMAIN primer_hits THEN None
    ELSE IF primer_pair.right.id \notin DOMAIN primer_hits THEN None
    ELSE
      LET lhit == primer_hits[primer_pair.left.id]
          rhit == primer_hits[primer_pair.right.id]
      IN  IF lhit.target = rhit.target
          THEN LET product ==
                     IF lhit.pos < rhit.pos
                     THEN PCR_Product(oid, genome[lhit.target].id,
                              Slice(genome[lhit.target].seq, lhit.pos - 1,
                                    rhit.pos + primer_len - 1),
                              lhit.pos, rhit.pos + primer_len)
                     ELSE PCR_Product(oid, genome[lhit.target].id,
                              Slice(genome[rhit.target].seq, rhit.pos - 1,
                                    lhit.pos + primer_len - 1),
                              rhit.pos, lhit.pos + primer_len)
               IN  IF Len(product.seq) > HugeProduct THEN None ELSE product
          ELSE None

\* generate_product taking the left primer's hit as the upstream one in
\* both branches of line 263.
generate_product_left_upstream(primer_pair, primer_hits, genome, primer_len, oid) ==
    IF primer_pair.left.id \notin DOMAIN primer_hits THEN None
    ELSE IF primer_pair.right.id \notin DOMAIN primer_hits THEN None
    ELSE
      LET lhit == primer_hits[primer_pair.left.id]
          rhit == primer_hits[primer_pair.right.id]
      IN  IF lhit.strand = rhit.strand THEN None
          ELSE IF lhit.target = rhit.target
          THEN LET product ==
                     PCR_Product(oid, genome[lhit.target].id,
                         Slice(genome[lhit.target].seq, lhit.pos - 1,
                               rhit.pos + primer_len - 1),
                         lhit.pos, rhit.pos + primer_len)
               IN  IF Len(product.seq) > HugeProduct THEN None ELSE product
          ELSE None

\* oid: the identity of the PCR_Product object the call creates.
generate_product(primer_pair, primer_hits, genome, primer_len, oid) ==
    IF primer_pair.left.id \notin DOMAIN primer_hits THEN None
    ELSE IF primer_pair.right.id \notin DOMAIN primer_hits THEN None
    ELSE
      LET lhit == primer_hits[primer_pair.left.id]
          rhit == primer_hits[primer_pair.right.id]
      IN  IF lhit.strand = rhit.strand THEN None
          ELSE IF lhit.target = rhit.target
          THEN LET product ==
                     IF lhit.pos < rhit.pos
                     THEN PCR_Product(oid, genome[lhit.target].id,
                              Slice(genome[lhit.target].seq, lhit.pos - 1,
                                    rhit.pos + primer_len - 1),
                              lhit.pos, rhit.pos + primer_len)
                     ELSE PCR_Product(oid, genome[lhit.target].id,
                              Slice(genome[rhit.target].seq, rhit.pos - 1,
                                    lhit.pos + primer_len - 1),
                              rhit.pos, lhit.pos + primer_len)
               IN  IF Len(product.seq) > HugeProduct THEN None ELSE product
          ELSE None

\* run: what bwa does for this genome file.  subprocess.run does not look at
\* the exit status of bwa index; check_output raises on the exit status of
\* the shell pipeline, which is that of its last command, bwa samse.  The
\* result is [raised, aln]: whether the call raises CalledProcessError, and
\* the output it returns otherwise.
align_primers(run) ==
    IF run.samse # 0
    THEN [raised |-> TRUE, aln |-> <<>>]
    ELSE [raised |-> FALSE, aln |-> run.out]

\* run: what bwa does for this genome file.
generate_products_from_genome(primers, genome_file, pairs, primer_len, run) ==
    LET genome == read_genome(genome_file)
        aligned == align_primers(run)
        ids == {pairs[k].pair_id : k \in DOMAIN pairs}
        PairOf(id) == CHOOSE k \in DOMAIN pairs : pairs[k].pair_id = id
    IN  IF aligned.raised THEN CalledProcessError
        ELSE [id \in ids |->
                generate_product(pairs[PairOf(id)], parse_aln(aligned.aln),
                                 genome, primer_len, <<genome_file, id>>)]

\* The invocations of a bwa run that exited non-zero.
FailedTools(genome_file, run) ==
    {<<genome_file, "bwa index">> : x \in {run.index} \ {0}}
    \cup {<<genome_file, "bwa aln">> : x \in {run.aln} \ {0}}
    \cup {<<genome_file, "bwa samse">> : x \in {run.samse} \ {0}}

(***************************************************************************)
(* Scorer                                                                  *)
(***************************************************************************)
ToSet(l) == {l[i] : i \in DOMAIN l}

\* l.count(x)
Count(l, x) == Cardinality({i \in DOMAIN l : l[i] = x})

RECURSIVE SumOf(_)
SumOf(l) == IF l = <<>> THEN 0 ELSE Head(l) + SumOf(Tail(l))

\* The product of c^c over the occurrence counts c of the members of S in l.
RECURSIVE CountPowers(_, _)
CountPowers(S, l) ==
    IF S = {} THEN 1
    ELSE LET x == CHOOSE y \in S : TRUE
         IN  Pow(Count(l, x), Count(l, x)) * CountPowers(S \ {x}, l)

\* -sum of f*log2(f) over the frequencies f = count/len of the members of
\* set(l), which equals log2(len^len / prod count^count) / len.
list_entropy(l) ==
    [num |-> Pow(Len(l), Len(l)), den |-> CountPowers(ToSet(l), l),
     n |-> Len(l)]

\* The bounds taken as inclusive.
good_product_inclusive(product, min_length, max_length) ==
    /\ product.seq # <<>>
    /\ max_length >= Len(product.seq)
    /\ Len(product.seq) >= min_length

\* (product.seq != "") and (max_length > len(product) > min_length)
good_product(product, min_length, max_length) ==
    /\ product.seq # <<>>
    /\ max_length > Len(product.seq)
    /\ Len(product.seq) > min_length

\* (product.seq != "") and (max_length > len(product))
good_bg_product(product, max_length) ==
    /\ product.seq # <<>>
    /\ max_length > Len(product.seq)

\* Membership decided by the sequence string.
ProductIn_by_sequence(bg_product, good_products) ==
    \E i \in DOMAIN good_products : good_products[i].seq = bg_product.seq

\* bg_product in good_products
ProductIn(bg_product, good_products) ==
    \E i \in DOMAIN good_products : good_products[i] = bg_product

HasNone(products) == \E i \in DOMAIN products : IsNone(products[i])

\* The result is [pair, raised]: reading .seq of a None product raises
\* AttributeError, and the fields assigned before that keep their new values.
score_primer_pair(primer_pair, products, bg_products_, min_length, max_length) ==
    IF HasNone(products) THEN [pair |-> primer_pair, raised |-> TRUE]
    ELSE
      LET Good(p) == good_product(p, min_length, max_length)
          good_products == SelectSeq(products, Good)
          lens == [i \in DOMAIN good_products |-> Len(good_products[i].seq)]
          sqs == [i \in DOMAIN lens |-> lens[i] * lens[i]]
          n == Len(good_products)
          p1 == [primer_pair EXCEPT !.nhits = n,
                                    !.nseq = Cardinality(ToSet(good_products))]
          p2 == IF p1.nhits > 0
                THEN [p1 EXCEPT
                        !.length = [num |-> SumOf(lens), den |-> n],
                        !.se = [num |-> n * SumOf(sqs) - SumOf(lens) * SumOf(lens),
                                den |-> n * n * n],
                        !.info = list_entropy(good_products)]
                ELSE p1
      IN  IF HasNone(bg_products_) THEN [pair |-> p2, raised |-> TRUE]
          ELSE
            LET GoodBg(p) == good_bg_product(p, max_length)
                good_bg_products == SelectSeq(bg_products_, GoodBg)
                bg_set == ToSet(good_bg_products)
            IN  [pair |-> [p2 EXCEPT
                    !.offhits = Len(good_bg_products),
                    !.offseqs = Cardinality(bg_set),
                    !.overlap = Cardinality({b \in bg_set :
                                               ProductIn(b, good_products)})],
                 raised |-> FALSE]

(***************************************************************************)
(* Ranker                                                                  *)
(***************************************************************************)
\* The filter keeping every pair.
Viable_nonneg(primer_pair) == primer_pair.nhits >= 0

\* primer_pair.nhits > 0
Viable(primer_pair) == primer_pair.nhits > 0

\* The key with the penalty not negated.
SortKey_penalty_ascending(primer_pair) ==
    <<primer_pair.nhits, primer_pair.nseq, primer_pair.info,
      primer_pair.penalty>>

\* The key of the sort.
SortKey(primer_pair) ==
    <<primer_pair.nhits, primer_pair.nseq, primer_pair.info,
      -primer_pair.penalty>>

\* a < b for two entropies log2(num/den)/n.
InfoLess(a, b) ==
    LET g == Gcd(a.n, b.n)
        ea == b.n \div g
        eb == a.n \div g
    IN  Pow(a.num, ea) * Pow(b.den, eb) < Pow(b.num, eb) * Pow(a.den, ea)

\* k1 < k2 for two key tuples, compared as Python compares tuples.
KeyLess(k1, k2) ==
    \/ k1[1] < k2[1]
    \/ k1[1] = k2[1] /\ k1[2] < k2[2]
    \/ k1[1] = k2[1] /\ k1[2] = k2[2] /\ InfoLess(k1[3], k2[3])
    \/ /\ k1[1] = k2[1] /\ k1[2] = k2[2]
       /\ ~InfoLess(k1[3], k2[3]) /\ ~InfoLess(k2[3], k1[3])
       /\ k1[4] < k2[4]

\* sorted(l, key=..., reverse=True): descending, and stable, so an element is
\* placed before the first one whose key is smaller.
RECURSIVE InsertDesc(_, _)
InsertDesc(x, l) ==
    IF l = <<>> THEN <<x>>
    ELSE IF KeyLess(SortKey(Head(l)), SortKey(x)) THEN <<x>> \o l
    ELSE <<Head(l)>> \o InsertDesc(x, Tail(l))

RECURSIVE SortedReverse(_, _)
SortedReverse(l, acc) ==
    IF l = <<>> THEN acc ELSE SortedReverse(Tail(l), InsertDesc(Head(l), acc))

\* Lines 377-378: the filter and the sort.
FilterAndSort(pairs) == SortedReverse(SelectSeq(pairs, Viable), <<>>)

(***************************************************************************)
(* The run: filter_primers and generate_products_and_score                 *)
(***************************************************************************)
\* A map that returns with the first result.
starmap_any(task) == \E g \in DOMAIN task : task[g] = "returned"

\* pool.starmap returns once every task of the map has returned its result.
starmap_complete(task) == \A g \in DOMAIN task : task[g] = "returned"

NoResult == [id \in {} |-> None]

IdsOf(pairs) == {pairs[k].pair_id : k \in DOMAIN pairs}

PairIds == IdsOf(primer_pairs)

\* The value a result slot of a map holds until its task returns.
Unreturned(pairs) == [id \in IdsOf(pairs) |-> None]

\* {pair_id: [products[pair_id] for products in ret]}
Rearrange(ret) == [id \in PairIds |-> [g \in DOMAIN ret |-> ret[g][id]]]

\* Number of products that are not None, over all files and pairs.
CountProducts(ret) ==
    Cardinality({x \in (DOMAIN ret) \X PairIds : NotNone(ret[x[1]][x[2]])})

\* No single call is under examination; a call that has not returned.
NoCall == [fn |-> "none"]
Pending == [pending |-> TRUE]

Init ==
    /\ args \in ArgSets
    /\ \E nfg \in 0..MaxFiles : \E nbg \in 0..(MaxFiles - nfg) :
          /\ fg_files = [g \in 1..nfg |-> <<"fg", g>>]
          /\ bg_files = [g \in 1..nbg |-> <<"bg", g>>]
    /\ pc = "start"
    /\ err = ""
    /\ stderr = <<>>
    /\ primer_pairs = <<>>
    /\ fg_task = <<>>
    /\ bg_task = <<>>
    /\ fg_ret = <<>>
    /\ bg_ret = <<>>
    /\ fg_products = NoResult
    /\ bg_products = NoResult
    /\ nscored = 0
    /\ ranked = <<>>
    /\ report = <<>>
    /\ failed = {}
    /\ p3_invoked = {}
    /\ call = NoCall
    /\ result = Pending

\* filter_primers, lines 436-443: generate the pairs and keep those Primer3
\* accepts; then generate_products_and_score maps the foreground files.
FilterPairs ==
    /\ pc = "start"
    /\ \E p3 \in P3Outputs : \E exits \in P3Exits :
          LET pairs == generate_primer_pairs(Primers)
              checked == [k \in DOMAIN pairs |->
                            check_primer_pair_primer3(pairs[k],
                                [exit |-> exits[k], penalty |-> p3[k]])]
              values == [k \in DOMAIN pairs |-> checked[k].value]
              viable == SelectSeq(values, NotNone)
          IN  /\ p3_invoked' =
                    {pairs[k].pair_id : k \in {j \in DOMAIN pairs :
                                                 checked[j].invoked}}
              /\ failed' =
                    {<<pairs[k].pair_id, "primer3_core">> :
                        k \in {j \in DOMAIN pairs : IsExc(values[j])}}
              /\ \/ /\ \E k \in DOMAIN pairs : IsExc(values[k])
                    /\ err' = "CalledProcessError"
                    /\ pc' = "raised"
                    /\ UNCHANGED <<primer_pairs, fg_ret, fg_task>>
                 \/ /\ \A k \in DOMAIN pairs : ~IsExc(values[k])
                    /\ primer_pairs' = viable
                    /\ fg_ret' = [g \in DOMAIN fg_files |-> Unreturned(viable)]
                    /\ fg_task' = [g \in DOMAIN fg_files |-> "pending"]
                    /\ pc' = "fg_map"
                    /\ UNCHANGED err
    /\ UNCHANGED <<call, result>>
    /\ UNCHANGED <<args, stderr, fg_files, bg_files, bg_task, bg_ret,
                   fg_products, bg_products, nscored, ranked, report>>

\* A pool worker runs generate_products_from_genome on a foreground file.
FgTask(g) ==
    /\ fg_task[g] = "pending"
    /\ \E run \in BwaRuns :
          /\ fg_ret' = [fg_ret EXCEPT ![g] =
                generate_products_from_genome(Primers, fg_files[g],
                    primer_pairs, Len(Primers[1].seq), run)]
          /\ failed' = failed \cup FailedTools(fg_files[g], run)
    /\ fg_task' = [fg_task EXCEPT ![g] = "returned"]
    /\ UNCHANGED <<call, result>>
    /\ UNCHANGED <<args, pc, err, stderr, fg_files, bg_files, primer_pairs,
                   bg_task, bg_ret, fg_products, bg_products, nscored, ranked,
                   report, p3_invoked>>

\* A task of the map raised: starmap raises its exception in the main thread.
StarmapRaises(ret) == \E g \in DOMAIN ret : IsExc(ret[g])

\* Lines 358-368: the foreground map returns; quit when it holds no product,
\* else rearrange and map the background files.
FgCollect ==
    /\ pc = "fg_map"
    /\ starmap_complete(fg_task)
    /\ \/ /\ StarmapRaises(fg_ret)
          /\ err' = "CalledProcessError"
          /\ pc' = "raised"
          /\ UNCHANGED <<stderr, fg_products, bg_task, bg_ret>>
       \/ /\ ~StarmapRaises(fg_ret)
          /\ CountProducts(fg_ret) = 0
          /\ stderr' = Append(stderr,
                 "There are no viable foreground PCR products. Quitting.")
          /\ err' = "SystemExit(1)"
          /\ pc' = "exited"
          /\ UNCHANGED <<fg_products, bg_task, bg_ret>>
       \/ /\ ~StarmapRaises(fg_ret)
          /\ CountProducts(fg_ret) # 0
          /\ fg_products' = Rearrange(fg_ret)
          /\ bg_task' = [g \in DOMAIN bg_files |-> "pending"]
          /\ bg_ret' = [g \in DOMAIN bg_files |-> Unreturned(primer_pairs)]
          /\ pc' = "bg_map"
          /\ UNCHANGED <<stderr, err>>
    /\ UNCHANGED <<call, result>>
    /\ UNCHANGED <<args, fg_files, bg_files, primer_pairs, fg_task, fg_ret,
                   bg_products, nscored, ranked, report, failed, p3_invoked>>

\* A pool worker runs generate_products_from_genome on a background file.
BgTask(g) ==
    /\ bg_task[g] = "pending"
    /\ \E run \in BwaRuns :
          /\ bg_ret' = [bg_ret EXCEPT ![g] =
                generate_products_from_genome(Primers, bg_files[g],
                    primer_pairs, Len(Primers[1].seq), run)]
          /\ failed' = failed \cup FailedTools(bg_files[g], run)
    /\ bg_task' = [bg_task EXCEPT ![g] = "returned"]
    /\ UNCHANGED <<call, result>>
    /\ UNCHANGED <<args, pc, err, stderr, fg_files, bg_files, primer_pairs,
                   fg_task, fg_ret, fg_products, bg_products, nscored, ranked,
                   report, p3_invoked>>

\* Lines 368-372: the background map returns and is rearranged.
BgCollect ==
    /\ pc = "bg_map"
    /\ starmap_complete(bg_task)
    /\ \/ /\ StarmapRaises(bg_ret)
          /\ err' = "CalledProcessError"
          /\ pc' = "raised"
          /\ UNCHANGED bg_products
       \/ /\ ~StarmapRaises(bg_ret)
          /\ bg_products' = Rearrange(bg_ret)
          /\ pc' = "score"
          /\ UNCHANGED err
    /\ UNCHANGED <<call, result>>
    /\ UNCHANGED <<args, stderr, fg_files, bg_files, primer_pairs,
                   fg_task, bg_task, fg_ret, bg_ret, fg_products, nscored,
                   ranked, report, failed, p3_invoked>>

\* Line 374: one iteration of the list comprehension that scores the pairs.
ScorePair ==
    /\ pc = "score"
    /\ nscored < Len(primer_pairs)
    /\ LET k == nscored + 1
           id == primer_pairs[k].pair_id
           r == score_primer_pair(primer_pairs[k], fg_products[id],
                                  bg_products[id], args.min, args.max)
       IN  /\ primer_pairs' = [primer_pairs EXCEPT ![k] = r.pair]
           /\ \/ /\ r.raised
                 /\ err' = "AttributeError"
                 /\ pc' = "raised"
              \/ /\ ~r.raised
                 /\ UNCHANGED <<err, pc>>
    /\ nscored' = nscored + 1
    /\ UNCHANGED <<call, result>>
    /\ UNCHANGED <<args, stderr, fg_files, bg_files, fg_task, bg_task, fg_ret,
                   bg_ret, fg_products, bg_products, ranked, report, failed,
                   p3_invoked>>

\* Lines 377-380: filter, sort and return to filter_primers.
Rank ==
    /\ pc = "score"
    /\ nscored = Len(primer_pairs)
    /\ ranked' = FilterAndSort(primer_pairs)
    /\ pc' = "report"
    /\ UNCHANGED <<call, result>>
    /\ UNCHANGED <<args, err, stderr, fg_files, bg_files, primer_pairs,
                   fg_task, bg_task, fg_ret, bg_ret, fg_products, bg_products,
                   nscored, report, failed, p3_invoked>>

\* str(primer_pair): the columns of one row of the report.
Row(pp) ==
    <<pp.left, pp.right, pp.locale, pp.nhits, pp.nseq, pp.info, pp.penalty,
      pp.length, pp.se, pp.offhits, pp.offseqs, pp.overlap>>

\* Lines 452-457: the report, a header line and one row per ranked pair
\* (args.ref is not given, so locate_primers is not run).
WriteReport ==
    /\ pc = "report"
    /\ report' = <<(<<"header">>)>> \o [k \in DOMAIN ranked |-> Row(ranked[k])]
    /\ pc' = "return"
    /\ UNCHANGED <<call, result>>
    /\ UNCHANGED <<args, err, stderr, fg_files, bg_files, primer_pairs,
                   fg_task, bg_task, fg_ret, bg_ret, fg_products, bg_products,
                   nscored, ranked, failed, p3_invoked>>

\* Line 459: return(primer_pairs[0].left.seq, primer_pairs[0].right.seq).
ReturnBest ==
    /\ pc = "return"
    /\ \/ /\ ranked = <<>>
          /\ err' = "IndexError"
          /\ pc' = "raised"
       \/ /\ ranked # <<>>
          /\ pc' = "done"
          /\ UNCHANGED err
    /\ UNCHANGED <<call, result>>
    /\ UNCHANGED <<args, stderr, fg_files, bg_files, primer_pairs, fg_task,
                   bg_task, fg_ret, bg_ret, fg_products, bg_products, nscored,
                   ranked, report, failed, p3_invoked>>

Next ==
    \/ FilterPairs
    \/ \E g \in DOMAIN fg_task : FgTask(g)
    \/ FgCollect
    \/ \E g \in DOMAIN bg_task : BgTask(g)
    \/ BgCollect
    \/ ScorePair
    \/ Rank
    \/ WriteReport
    \/ ReturnBest

Spec == Init /\ [][Next]_vars

(***************************************************************************)
(* Single calls of generate_product and parse_aln                          *)
(***************************************************************************)
MaxPos == 6
MaxRecords == 2

\* The variables of a run, while no run is going on.
NoRun ==
    /\ args = [min |-> 3, max |-> 6]
    /\ pc = "call"
    /\ err = ""
    /\ stderr = <<>>
    /\ fg_files = <<>>
    /\ bg_files = <<>>
    /\ primer_pairs = <<>>
    /\ fg_task = <<>>
    /\ bg_task = <<>>
    /\ fg_ret = <<>>
    /\ bg_ret = <<>>
    /\ fg_products = NoResult
    /\ bg_products = NoResult
    /\ nscored = 0
    /\ ranked = <<>>
    /\ report = <<>>
    /\ failed = {}
    /\ p3_invoked = {}

\* The strand values a Primer_hit may carry, and the positions of a hit on
\* a contig: the first MaxPos of it, on chrL the ones around HugeProduct.
Strands == {-1, 0, 1}

HitPositions(target) ==
    IF target = "chrL" THEN {1, HugeProduct - 1, HugeProduct} ELSE 1..MaxPos

\* What the hit mapping may hold for one primer: no entry, or any hit.
HitsOf(primer_id) ==
    {None} \cup
    UNION {{Primer_hit(primer_id, target, strand, pos, 0) :
                strand \in Strands, pos \in HitPositions(target)} :
            target \in DOMAIN Contigs}

\* The hit mapping holding lhit for primer_pair.left and rhit for
\* primer_pair.right, each unless it is None.
HitMap(primer_pair, lhit, rhit) ==
    [id \in {primer_pair.left.id : x \in {lhit} \ {None}}
            \cup {primer_pair.right.id : x \in {rhit} \ {None}} |->
        IF id = primer_pair.left.id THEN lhit ELSE rhit]

\* generate_product(primer_pair, primer_hits, genome, primer_len), for the
\* first pair of the primer file and any two hits.
InitProduct ==
    /\ NoRun
    /\ \E lhit \in HitsOf(Primers[1].id) : \E rhit \in HitsOf(Primers[2].id) :
          LET primer_pair == Primer_pair(0, Primers[1], Primers[2])
          IN  call = [fn |-> "generate_product",
                      primer_pair |-> primer_pair,
                      primer_hits |-> HitMap(primer_pair, lhit, rhit),
                      primer_len |-> Len(Primers[1].seq)]
    /\ result = Pending

ApplyGenerateProduct ==
    /\ call.fn = "generate_product"
    /\ result = Pending
    /\ result' = generate_product(call.primer_pair, call.primer_hits,
                                  read_genome("genome"), call.primer_len,
                                  "product")
    /\ UNCHANGED <<args, pc, err, stderr, fg_files, bg_files, primer_pairs,
                   fg_task, bg_task, fg_ret, bg_ret, fg_products, bg_products,
                   nscored, ranked, report, failed, p3_invoked, call>>

NextProduct == ApplyGenerateProduct

SpecProduct == InitProduct /\ [][NextProduct]_vars

\* The flags of the records bwa samse prints for single-end reads: the
\* unmapped bit 4 and the reverse-strand bit 16, set or not.
Flags == {0, 4, 16, 20}

SamRecords ==
    {SamHeader} \cup
    {Sam(qname, flag, "chr1", pos, 0) :
        qname \in {"0", "1rc"}, flag \in Flags, pos \in {1, 3}}

RECURSIVE SeqsUpTo(_, _)
SeqsUpTo(S, n) ==
    IF n = 0 THEN {<<>>}
    ELSE LET shorter == SeqsUpTo(S, n - 1)
         IN  shorter \cup {Append(s, x) : s \in shorter, x \in S}

\* parse_aln(aln) for any alignment of at most MaxRecords lines.
InitParse ==
    /\ NoRun
    /\ \E aln \in SeqsUpTo(SamRecords, MaxRecords) :
          call = [fn |-> "parse_aln", aln |-> aln]
    /\ result = Pending

ApplyParseAln ==
    /\ call.fn = "parse_aln"
    /\ result = Pending
    /\ result' = parse_aln(call.aln)
    /\ UNCHANGED <<args, pc, err, stderr, fg_files, bg_files, primer_pairs,
                   fg_task, bg_task, fg_ret, bg_ret, fg_products, bg_products,
                   nscored, ranked, report, failed, p3_invoked, call>>

NextParse == ApplyParseAln

SpecParse == InitParse /\ [][NextParse]_vars

(***************************************************************************)
(* Properties                                                              *)
(***************************************************************************)
\* Every product-simulation task of the run has returned its result.
AllTasksReturned ==
    /\ DOMAIN fg_task = DOMAIN fg_files
    /\ DOMAIN bg_task = DOMAIN bg_files
    /\ \A g \in DOMAIN fg_files : fg_task[g] = "returned"
    /\ \A g \in DOMAIN bg_files : bg_task[g] = "returned"

\* The pairs whose call of score_primer_pair has returned.
Scored ==
    {k \in DOMAIN primer_pairs :
        k <= nscored /\ ~(k = nscored /\ err = "AttributeError")}

FgOf(k) == fg_products[primer_pairs[k].pair_id]
BgOf(k) == bg_products[primer_pairs[k].pair_id]

\* The foreground products of pair k that qualify: present, non-empty and of
\* a length strictly between --min and --max.
QualFg(k) ==
    {g \in DOMAIN FgOf(k) :
        /\ NotNone(FgOf(k)[g])
        /\ FgOf(k)[g].seq # <<>>
        /\ args.min < Len(FgOf(k)[g].seq)
        /\ Len(FgOf(k)[g].seq) < args.max}

\* The background products of pair k that qualify: present, non-empty and
\* shorter than --max.
QualBg(k) ==
    {g \in DOMAIN BgOf(k) :
        /\ NotNone(BgOf(k)[g])
        /\ BgOf(k)[g].seq # <<>>
        /\ Len(BgOf(k)[g].seq) < args.max}

FgSeqs(k) == {FgOf(k)[g].seq : g \in QualFg(k)}
BgSeqs(k) == {BgOf(k)[g].seq : g \in QualBg(k)}

\* How many qualifying foreground products of pair k carry the sequence s.
SeqCount(k, s) == Cardinality({g \in QualFg(k) : FgOf(k)[g].seq = s})

\* C1: score_primer_pair is called, and the statistics of a pair change,
\* only in the scoring step of the main thread, after the task of every
\* foreground and every background genome file has returned its result.
C1_ScoringAfterAllTasks ==
    [][ (\/ nscored' # nscored
         \/ \E k \in (DOMAIN primer_pairs) \cap (DOMAIN primer_pairs') :
               primer_pairs'[k] # primer_pairs[k])
        => (pc = "score" /\ AllTasksReturned) ]_vars

C1_Witness ==
    /\ pc = "score"
    /\ nscored >= 1
    /\ Len(fg_files) >= 2
    /\ Len(bg_files) >= 1
    /\ primer_pairs[1].nhits >= 1

\* C2: no pair whose nhits is 0 appears in the ranked list.
C2_NoZeroHitsRanked == \A k \in DOMAIN ranked : ranked[k].nhits # 0

C2_Witness ==
    /\ pc = "report"
    /\ ranked # <<>>
    /\ \E k \in DOMAIN primer_pairs : primer_pairs[k].nhits = 0

\* (nhits, nseq, info, -penalty) of a is lexicographically at least that of b.
C3_KeyGeq(a, b) ==
    \/ a.nhits > b.nhits
    \/ a.nhits = b.nhits /\ a.nseq > b.nseq
    \/ a.nhits = b.nhits /\ a.nseq = b.nseq /\ InfoLess(b.info, a.info)
    \/ /\ a.nhits = b.nhits /\ a.nseq = b.nseq
       /\ ~InfoLess(b.info, a.info) /\ ~InfoLess(a.info, b.info)
       /\ a.penalty <= b.penalty

\* C3: along the ranked list the tuple (nhits, nseq, info, -penalty) never
\* increases; pairs tied on nhits, nseq and info are in order of penalty.
C3_RankedNonIncreasing ==
    \A k \in 1..(Len(ranked) - 1) : C3_KeyGeq(ranked[k], ranked[k + 1])

C3_Witness ==
    /\ pc = "report"
    /\ \E k \in 1..(Len(ranked) - 1) :
          /\ ranked[k].nhits = ranked[k + 1].nhits
          /\ ranked[k].nseq = ranked[k + 1].nseq
          /\ ranked[k].info = ranked[k + 1].info
          /\ ranked[k].penalty < ranked[k + 1].penalty
          /\ ranked[k].pair_id = "3"

\* C4: after score_primer_pair, overlap <= min(nseq, offseqs).
C4_OverlapBounded ==
    \A k \in Scored :
        /\ primer_pairs[k].overlap <= primer_pairs[k].nseq
        /\ primer_pairs[k].overlap <= primer_pairs[k].offseqs

C4_Witness ==
    \E k \in Scored :
        /\ primer_pairs[k].nseq >= 1
        /\ primer_pairs[k].offseqs >= 2
        /\ FgSeqs(k) \cap BgSeqs(k) # {}

\* C5: after score_primer_pair, nhits is the number of qualifying foreground
\* products and nseq the number of distinct sequences among them.
C5_NseqCountsDistinctSequences ==
    \A k \in Scored :
        /\ primer_pairs[k].nhits = Cardinality(QualFg(k))
        /\ primer_pairs[k].nseq = Cardinality(FgSeqs(k))

\* C6: info is the entropy of the distribution of the distinct qualifying
\* foreground sequences: 0 when there is one distinct sequence, log2(k) when
\* there are k distinct sequences occurring equally often.
C6_InfoIsSequenceEntropy ==
    \A k \in Scored :
        (/\ primer_pairs[k].nhits >= 1
         /\ \A s, t \in FgSeqs(k) : SeqCount(k, s) = SeqCount(k, t))
        => primer_pairs[k].info.num =
              primer_pairs[k].info.den
                 * Pow(Cardinality(FgSeqs(k)), primer_pairs[k].info.n)

\* C7: overlap is the number of distinct qualifying background sequences
\* that are also qualifying foreground sequences.
C7_OverlapBySequence ==
    \A k \in Scored :
        primer_pairs[k].overlap = Cardinality(BgSeqs(k) \cap FgSeqs(k))

\* C8: nhits counts exactly the foreground products that are non-empty and
\* of a length strictly between min and max; a single qualifying product
\* gives nhits = 1, nseq = 1 and info = 0.
C8_StrictLengthBounds ==
    \A k \in Scored :
        /\ primer_pairs[k].nhits = Cardinality(QualFg(k))
        /\ Cardinality(QualFg(k)) = 1 =>
              /\ primer_pairs[k].nseq = 1
              /\ primer_pairs[k].info.num = primer_pairs[k].info.den

C8_Witness ==
    \E k, j \in Scored :
        /\ primer_pairs[k].nhits = 1
        /\ primer_pairs[k].nseq = 1
        /\ \E g \in DOMAIN FgOf(k) : Len(FgOf(k)[g].seq) = args.min
        /\ primer_pairs[j].nhits = 1
        /\ \E g \in DOMAIN FgOf(j) : Len(FgOf(j)[g].seq) = args.max

\* C9: a pair with "no product" in some genome is scored without an error:
\* the call does not raise, and its nhits and offhits count the qualifying
\* products of the other genomes.
C9_NoProductIsNotAnError ==
    /\ err # "AttributeError"
    /\ \A k \in DOMAIN primer_pairs : k <= nscored =>
          /\ primer_pairs[k].nhits = Cardinality(QualFg(k))
          /\ primer_pairs[k].offhits = Cardinality(QualBg(k))

\* C10: when no pair has a qualifying foreground product the run neither
\* ranks nor writes the report.
C10_NoQualifyingProductStopsRun ==
    (pc \in {"report", "return", "done"} \/ report # <<>>)
        => \E k \in DOMAIN primer_pairs : QualFg(k) # {}

\* The result slot of the pool task that ran bwa for a genome file.
ResultOf(genome_file) ==
    IF genome_file[1] = "fg" THEN fg_ret[genome_file[2]]
    ELSE bg_ret[genome_file[2]]

\* C11: every external invocation (bwa index, bwa aln, bwa samse,
\* primer3_core) that exits non-zero aborts the run: the task that made a
\* failed bwa invocation hands back the error and no products, a failed
\* primer3_core leaves no pair list, nothing is scored, ranked or reported
\* after a failure, and once the maps are collected the run has raised.
C11_ToolFailureAborts ==
    \A x \in failed :
        /\ x[2] = "primer3_core" => pc = "raised" /\ primer_pairs = <<>>
        /\ x[2] # "primer3_core" => IsExc(ResultOf(x[1]))
        /\ nscored = 0
        /\ pc \notin {"score", "report", "return", "done"}


\* The pairs of the primer file whose right primer is the reverse complement
\* of the left one.
RcPairIds ==
    LET pairs == generate_primer_pairs(Primers)
    IN  {pairs[k].pair_id : k \in {j \in DOMAIN pairs :
            reverse_complement(pairs[j].left.seq) = pairs[j].right.seq}}

\* The pair_ids that were handed to product simulation or to scoring.
SimulatedOrScored ==
    UNION {DOMAIN fg_ret[g] : g \in {h \in DOMAIN fg_ret : ~IsExc(fg_ret[h])}}
    \cup UNION {DOMAIN bg_ret[g] :
                    g \in {h \in DOMAIN bg_ret : ~IsExc(bg_ret[h])}}
    \cup DOMAIN fg_products
    \cup DOMAIN bg_products
    \cup IdsOf(ranked)

\* C12: primer3_core is never run for a pair whose right primer is the exact
\* reverse complement of its left primer, the pair is not in the viable list,
\* and it never reaches product simulation or scoring.
C12_RcPairNeverEvaluated ==
    \A id \in RcPairIds :
        /\ id \notin p3_invoked
        /\ id \notin IdsOf(primer_pairs)
        /\ id \notin SimulatedOrScored

\* primer3_core was run for other pairs, reverse-complement pairs exist, and
\* the surviving pairs were simulated and scored.
C12_Witness ==
    /\ RcPairIds # {}
    /\ p3_invoked # {}
    /\ pc = "done"
    /\ nscored >= 1


\* A generate_product call has returned; its two hits, None when missing.
ProductReturned == call.fn = "generate_product" /\ result # Pending

IsProduct(x) == "seq" \in DOMAIN x

HitOf(primer) ==
    IF primer.id \in DOMAIN call.primer_hits
    THEN call.primer_hits[primer.id]
    ELSE None

Lhit == HitOf(call.primer_pair.left)
Rhit == HitOf(call.primer_pair.right)

\* Both primers have a hit, on different strands of one contig.
Amplifiable ==
    /\ NotNone(Lhit)
    /\ NotNone(Rhit)
    /\ Lhit.strand # Rhit.strand
    /\ Lhit.target = Rhit.target

\* C13: generate_product returns a product only if both primers have a hit,
\* the hits have different strand values and lie on the same contig;
\* whenever one of these fails it returns None, whatever the positions.
C13_ProductOnlyIfAmplifiable ==
    ProductReturned =>
        /\ IsProduct(result) => Amplifiable
        /\ ~Amplifiable => IsNone(result)

\* Both hits on strand 0 of one contig, close together: no product.
C13_Witness ==
    /\ ProductReturned
    /\ NotNone(Lhit)
    /\ NotNone(Rhit)
    /\ Lhit.strand = 0
    /\ Rhit.strand = 0
    /\ Lhit.target = Rhit.target
    /\ Lhit.pos < Rhit.pos
    /\ IsNone(result)

\* The lower and the upper of the two hit positions, the contig they are on
\* and the length of the region from the lower hit to the end of the primer
\* at the upper one.
Lo == Min2(Lhit.pos, Rhit.pos)
Hi == IF Lhit.pos < Rhit.pos THEN Rhit.pos ELSE Lhit.pos
Contig == read_genome("genome")[Lhit.target].seq
RegionLen == Hi + call.primer_len - Lo

\* C14: a product returned for hits at lo <= hi on a contig that reaches
\* position hi + primer_len - 1 has start lo, end hi + primer_len, the
\* contig's positions lo..hi+primer_len-1 as its sequence and the length
\* hi + primer_len - lo, which is at most 10000; a longer region gives no
\* product.
C14_ProductCoordinates ==
    (ProductReturned /\ Amplifiable
        /\ Len(Contig) >= Hi + call.primer_len - 1) =>
        /\ IsProduct(result) =>
              /\ result.start = Lo
              /\ result.end = Hi + call.primer_len
              /\ result.seq = [i \in 1..RegionLen |-> Contig[Lo + i - 1]]
              /\ Len(result.seq) = RegionLen
              /\ Len(result.seq) <= HugeProduct
        /\ IsProduct(result) <=> RegionLen <= HugeProduct

\* A product with the right primer's hit upstream of the left primer's.
C14_Witness ==
    /\ ProductReturned
    /\ IsProduct(result)
    /\ Rhit.pos < Lhit.pos
    /\ Len(Contig) >= Hi + call.primer_len - 1
    /\ Len(result.seq) = RegionLen

\* What C15 compares of a result: template, sequence, start and end, or None.
Outcome(x) ==
    IF IsProduct(x)
    THEN [template |-> x.template, seq |-> x.seq, start |-> x.start,
          end |-> x.end]
    ELSE None

\* The hit mapping with the two hits of the pair exchanged between its
\* primers.
SwappedHits ==
    LET pp == call.primer_pair
    IN  pp.left.id :> [Rhit EXCEPT !.primer_id = pp.left.id]
        @@ pp.right.id :> [Lhit EXCEPT !.primer_id = pp.right.id]

\* C15: for hits at positions p1 < p2 on different strands of one contig,
\* generate_product gives the same template, sequence, start and end, or
\* no product both times, whichever primer of the pair holds which hit.
C15_SwapSymmetric ==
    (ProductReturned /\ Amplifiable /\ Lhit.pos # Rhit.pos) =>
        Outcome(result) =
            Outcome(generate_product(call.primer_pair, SwappedHits,
                                     read_genome("genome"), call.primer_len,
                                     "swapped"))

\* A product from a left hit downstream of the right hit.
C15_Witness ==
    /\ ProductReturned
    /\ Amplifiable
    /\ Lhit.pos > Rhit.pos
    /\ IsProduct(result)
    /\ result.start = Rhit.pos

\* Bit b (a power of two) of a SAM flag is set.
HasBit(flag, b) == (flag \div b) % 2 = 1

\* C16: every entry of the mapping parse_aln returns is built from a record
\* of the alignment whose flag has the unmapped bit (4) clear, and its strand
\* is one of two values: 1 when the reverse-strand bit (16) of that record
\* is set, -1 when it is not.
C16_OnlyMappedRecords ==
    (call.fn = "parse_aln" /\ result # Pending) =>
        \A id \in DOMAIN result :
            \E k \in DOMAIN call.aln :
                LET r == call.aln[k]
                IN  /\ ~r.header
                    /\ r.qname = id
                    /\ ~HasBit(r.flag, 4)
                    /\ result[id].target = r.rname
                    /\ result[id].pos = r.pos
                    /\ result[id].edist = r.nm
                    /\ result[id].strand =
                          IF HasBit(r.flag, 16) THEN 1 ELSE -1

====
